---------------------------- MODULE Spec2Model ----------------------------
(***************************************************************************)
(* PureState and MixedState of states.py as a state machine.               *)
(*                                                                         *)
(* Scalars are exact complex rationals (SymPy Integer/Rational/I values),  *)
(* kept in lowest terms the way simplify() keeps them.  A ket is a column  *)
(* of Gaussian integers divided by one square root, amps / sqrt(nsq), so   *)
(* that (|00> + |11>)/sqrt(2) and its density matrix are exact.  Objects   *)
(* live in two heaps, pure and mixed; an object's identity is its index.   *)
(***************************************************************************)
EXTENDS Integers, Sequences, FiniteSets, TLC

VARIABLES
    pure,    \* heap of PureState objects: pure[i] is the ket self.vec of object i
    mixed,   \* heap of MixedState objects: mixed[m] is self.ensemble of object m
    last     \* the most recent call: operation, receiver, arguments, outcome

vars == <<pure, mixed, last>>

---------------------------------------------------------------------------
\* Bounds of the model.
MaxPure == 2
MaxMixed == 1
MaxDerived == 1
MaxDim == 4

---------------------------------------------------------------------------
\* Exact scalars: re/den + i*im/den, in lowest terms, den > 0.

Abs(n) == IF n < 0 THEN -n ELSE n

RECURSIVE GCD(_, _)
GCD(a, b) == IF b = 0 THEN a ELSE GCD(b, a % b)

Reduce(re, im, den) ==
    LET g == GCD(GCD(Abs(re), Abs(im)), den)
    IN  [re |-> re \div g, im |-> im \div g, den |-> den \div g]

Q(n, d) == Reduce(n, 0, d)
Zero == Q(0, 1)
One == Q(1, 1)

CAdd(x, y) == Reduce(x.re * y.den + y.re * x.den, x.im * y.den + y.im * x.den, x.den * y.den)
CNeg(x) == [x EXCEPT !.re = -x.re, !.im = -x.im]
CSub(x, y) == CAdd(x, CNeg(y))
CMul(x, y) == Reduce(x.re * y.re - x.im * y.im, x.re * y.im + x.im * y.re, x.den * y.den)
CConj(x) == [x EXCEPT !.im = -x.im]
\* x / y for y # 0
CDiv(x, y) == CMul(x, Reduce(y.re * y.den, -(y.im * y.den), y.re * y.re + y.im * y.im))
IsReal(x) == x.im = 0

RECURSIVE CSum(_)
CSum(s) == IF s = <<>> THEN Zero ELSE CAdd(s[1], CSum(Tail(s)))

---------------------------------------------------------------------------
\* Matrices: a sequence of rows, each a sequence of scalars.

Rows(M) == Len(M)
Cols(M) == IF M = <<>> THEN 0 ELSE Len(M[1])
ZeroMatrix(n) == [r \in 1..n |-> [c \in 1..n |-> Zero]]
MAdd(A, B) == [r \in 1..Rows(A) |-> [c \in 1..Cols(A) |-> CAdd(A[r][c], B[r][c])]]
MScale(k, A) == [r \in 1..Rows(A) |-> [c \in 1..Cols(A) |-> CMul(k, A[r][c])]]
MMul(A, B) ==
    [r \in 1..Rows(A) |-> [c \in 1..Cols(B) |->
        CSum([k \in 1..Cols(A) |-> CMul(A[r][k], B[k][c])])]]
ConjT(A) == [r \in 1..Cols(A) |-> [c \in 1..Rows(A) |-> CConj(A[c][r])]]
Trace(A) == CSum([k \in 1..Rows(A) |-> A[k][k]])

---------------------------------------------------------------------------
\* Kets.  [amps, nsq, flt] stands for the column amps / sqrt(nsq); amps are
\* Gaussian integers <<re, im>>.  flt marks entries that SymPy holds as
\* floating-point numbers (the result of norm**0.5 in normalize).

Dim(k) == Len(k.amps)
\* simplify(): the largest g with g | amps and g*g | nsq is cancelled
Simplify(k) ==
    LET ok(g) == /\ k.nsq % (g * g) = 0
                 /\ \A j \in 1..Dim(k) : k.amps[j][1] % g = 0 /\ k.amps[j][2] % g = 0
        g == CHOOSE h \in 1..k.nsq : ok(h) /\ \A h2 \in 1..k.nsq : ok(h2) => h2 <= h
    IN  [amps |-> [j \in 1..Dim(k) |-> <<k.amps[j][1] \div g, k.amps[j][2] \div g>>],
         nsq |-> k.nsq \div (g * g), flt |-> k.flt]

Ket(amps, nsq) == [amps |-> amps, nsq |-> nsq, flt |-> FALSE]

\* Mutant: psi.vec * psi.vec.T, the conjugation forgotten
OuterEntry_NoConj(k, r, c) ==
    Reduce(k.amps[r][1] * k.amps[c][1] - k.amps[r][2] * k.amps[c][2],
           k.amps[r][2] * k.amps[c][1] + k.amps[r][1] * k.amps[c][2],
           k.nsq)

\* entry (r, c) of |k><k| : amps[r] * conj(amps[c]) / nsq
OuterEntry(k, r, c) ==
    Reduce(k.amps[r][1] * k.amps[c][1] + k.amps[r][2] * k.amps[c][2],
           k.amps[r][2] * k.amps[c][1] - k.amps[r][1] * k.amps[c][2],
           k.nsq)
Outer(k) == [r \in 1..Dim(k) |-> [c \in 1..Dim(k) |-> OuterEntry(k, r, c)]]

\* Gaussian integers <<re, im>>
GAdd(a, b) == <<a[1] + b[1], a[2] + b[2]>>
GMul(a, b) == <<a[1] * b[1] - a[2] * b[2], a[1] * b[2] + a[2] * b[1]>>
RECURSIVE GSum(_)
GSum(s) == IF s = <<>> THEN <<0, 0>> ELSE GAdd(s[1], GSum(Tail(s)))

---------------------------------------------------------------------------
\* Outcome of a call: a returned value, or the error that was raised.
\* ValueError("Probabilities must sum to 1.") is InvalidEnsembleError,
\* RuntimeError("All outcome probabilities are zero.") is
\* DegenerateMeasurementError, the two ValueErrors of PureState and SymPy's own
\* ShapeError are ShapeError.
Ok(v) == [kind |-> "ok", val |-> v]
Err(e) == [kind |-> e, val |-> <<>>]

---------------------------------------------------------------------------
\* PureState

\* __init__(amplitudes): a is [cols, ket], the shape and content of the Matrix
PureStateInit(a) ==
    IF a.cols # 1 THEN Err("ShapeError") ELSE Ok(Simplify(a.ket))

\* apply_gate(gate): gate is a matrix of Gaussian integers
apply_gate(k, gate) ==
    IF Rows(gate) # Dim(k) \/ Cols(gate) # Dim(k)
    THEN Err("ShapeError")
    ELSE PureStateInit([cols |-> 1,
            ket |-> [k EXCEPT !.amps = [r \in 1..Dim(k) |->
                        GSum([c \in 1..Dim(k) |-> GMul(gate[r][c], k.amps[c])])]]])

\* tensor(other): the Kronecker product of the two columns
tensor(k, other) ==
    PureStateInit([cols |-> 1,
        ket |-> [amps |-> [n \in 1..(Dim(k) * Dim(other)) |->
                    GMul(k.amps[((n - 1) \div Dim(other)) + 1],
                         other.amps[((n - 1) % Dim(other)) + 1])],
                 nsq |-> k.nsq * other.nsq,
                 flt |-> k.flt \/ other.flt]])

\* sum of |amps[j]|^2, so that <k|k> = AmpSq(k) / nsq
AmpSq(k) == GSum([j \in 1..Dim(k) |-> GMul(k.amps[j], <<k.amps[j][1], -k.amps[j][2]>>)])[1]

\* normalize(): vec / norm**0.5 with norm = <k|k>.  norm**0.5 is exactly 1 for
\* norm = 1 and a floating-point number otherwise.
normalize(k) ==
    PureStateInit([cols |-> 1,
        ket |-> [amps |-> k.amps, nsq |-> AmpSq(k), flt |-> k.flt \/ AmpSq(k) # k.nsq]])

---------------------------------------------------------------------------
\* MixedState.  An ensemble is a sequence of [p, s]: probability p and the
\* identity s of a PureState.

Total(ens) == CSum([j \in 1..Len(ens) |-> ens[j].p])
Residual(ens) == CSub(Total(ens), One)

\* Mutant: "if simplify(total - 1) > 0", only a sum above 1 is rejected
MixedStateInit_OnlyAbove(ens) ==
    IF Residual(ens).re > 0 THEN Err("InvalidEnsembleError") ELSE Ok(ens)

\* Mutant: the check left out
MixedStateInit_NoCheck(ens) == Ok(ens)

\* __init__(ensemble)
MixedStateInit(ens) ==
    IF Residual(ens) # Zero THEN Err("InvalidEnsembleError") ELSE Ok(ens)

\* to_mixed(prob) of PureState s
to_mixed(s, prob) == MixedStateInit(<<[p |-> prob, s |-> s]>>)

\* the loop of density_matrix(): rho += p * |psi><psi| over ens[j..]
RECURSIVE AddMembers(_, _, _, _)
AddMembers(heap, ens, j, rho) ==
    IF j > Len(ens) THEN Ok(rho)
    ELSE IF Dim(heap[ens[j].s]) # Rows(rho) THEN Err("ShapeError")
    ELSE AddMembers(heap, ens, j + 1, MAdd(rho, MScale(ens[j].p, Outer(heap[ens[j].s]))))

\* Mutant: "rho += psi.vec * psi.vec.conjugate().T", the weight p forgotten
RECURSIVE AddMembers_Unweighted(_, _, _, _)
AddMembers_Unweighted(heap, ens, j, rho) ==
    IF j > Len(ens) THEN Ok(rho)
    ELSE IF Dim(heap[ens[j].s]) # Rows(rho) THEN Err("ShapeError")
    ELSE AddMembers_Unweighted(heap, ens, j + 1, MAdd(rho, Outer(heap[ens[j].s])))

density_matrix_Unweighted(heap, ens) ==
    IF ens = <<>> THEN Err("IndexError")
    ELSE AddMembers_Unweighted(heap, ens, 1, ZeroMatrix(Dim(heap[ens[1].s])))

\* density_matrix()
density_matrix(heap, ens) ==
    IF ens = <<>> THEN Err("IndexError")
    ELSE AddMembers(heap, ens, 1, ZeroMatrix(Dim(heap[ens[1].s])))

\* first index i with probs[i] # 0, or 0: the loop "for i, p in enumerate(probs)"
RECURSIVE FirstNonZero(_, _)
FirstNonZero(probs, i) ==
    IF i > Len(probs) THEN 0
    ELSE IF probs[i] # Zero THEN i
    ELSE FirstNonZero(probs, i + 1)

\* Matrix.diagonalize() returns (P, D): P holds the eigenvectors as columns and
\* is invertible, D is diagonal.  Of P the model keeps the position, in P's
\* first row, of its first non-zero entry; an invertible matrix has one.
diagonalize(M) == 1..Rows(M)

\* "evals, evecs = diagonalize()" binds evals to P and evecs to D, and
\* zip(evals, evecs) pairs their entries in row-major order.  Pairs before
\* position pos have ev = 0 and are skipped; at pos, ev # 0 and evec is a
\* scalar of D, which has no col_insert.  pos = 0 stands for a P without
\* non-zero entry: the loop appends nothing.
Reconstruct(pos) ==
    IF pos = 0 THEN MixedStateInit(<<>>) ELSE Err("AttributeError")

\* probs = [simplify((proj * rho).trace()) for proj in projectors]
OutcomeProbs(rho, projectors) ==
    [i \in 1..Len(projectors) |-> Trace(MMul(projectors[i], rho))]

\* measure(projectors) up to the eigen-decomposition: rho, the outcome
\* probabilities, the first non-zero branch and its normalized post-measurement
\* matrix.  Tr(P rho P) = 0 with Tr(P rho) # 0 takes a P that is not idempotent;
\* ProjectorLists holds none, and the division by zero is left as "ZeroTrace".
\* index is the branch the loop entered (1-based, 0 for none); kind is "ok"
\* when a branch was entered and post computed.
Collapse(dm, projectors) ==
    LET rho == dm.val
        none == [kind |-> dm.kind, index |-> 0, post |-> <<>>]
    IN  IF dm.kind # "ok" THEN none
        ELSE IF \E i \in 1..Len(projectors) : Cols(projectors[i]) # Rows(rho)
        THEN [none EXCEPT !.kind = "ShapeError"]
        ELSE LET i == FirstNonZero(OutcomeProbs(rho, projectors), 1)
             IN  IF i = 0 THEN [none EXCEPT !.kind = "DegenerateMeasurementError"]
                 ELSE LET unnorm == MMul(MMul(projectors[i], rho), projectors[i])
                          t == Trace(unnorm)
                      IN  IF t = Zero
                          THEN [none EXCEPT !.kind = "ZeroTrace", !.index = i]
                          ELSE [kind |-> "ok", index |-> i,
                                post |-> MScale(CDiv(One, t), unnorm)]

\* measure(projectors), given what Collapse computed and what diagonalize()
\* returned: (index, MixedState(new_ensemble)) or the error raised.
measure(c, pos) ==
    LET rec == IF c.kind = "ok" THEN Reconstruct(pos) ELSE Err(c.kind)
    IN  [kind |-> rec.kind, val |-> rec.val, index |-> c.index, post |-> c.post]

---------------------------------------------------------------------------
\* partial_trace_ensemble of utils (not part of states.py): the reduction
\* algorithm as the specification describes it.

RECURSIVE Prod(_)
Prod(dims) == IF dims = <<>> THEN 1 ELSE dims[1] * Prod(Tail(dims))

\* 0-based digit j of the flat basis index n in the mixed radix dims
Digit(n, dims, j) == (n \div Prod(SubSeq(dims, j + 2, Len(dims)))) % dims[j + 1]

\* the flat index, on the kept subsystems, of the kept digits of n
RECURSIVE KeptIndex(_, _, _)
KeptIndex(n, dims, keep) ==
    IF keep = <<>> THEN 0
    ELSE Digit(n, dims, keep[1]) * Prod([j \in 1..(Len(keep) - 1) |-> dims[keep[j + 1] + 1]])
            + KeptIndex(n, dims, Tail(keep))

Kept(keep) == {keep[j] : j \in 1..Len(keep)}
TracedEqual(r, c, dims, keep) ==
    \A j \in 0..(Len(dims) - 1) : j \notin Kept(keep) => Digit(r, dims, j) = Digit(c, dims, j)

\* the partial-trace contraction of rho
ReducedMatrix(rho, dims, keep) ==
    LET dk == Prod([j \in 1..Len(keep) |-> dims[keep[j] + 1]])
        d == Rows(rho)
    IN  [a \in 1..dk |-> [b \in 1..dk |->
            CSum([r \in 1..d |-> CSum([c \in 1..d |->
                IF /\ KeptIndex(r - 1, dims, keep) = a - 1
                   /\ KeptIndex(c - 1, dims, keep) = b - 1
                   /\ TracedEqual(r - 1, c - 1, dims, keep)
                THEN rho[r][c] ELSE Zero])])]]

\* M * k.amps as scalars, and whether it is lambda * k.amps
AmpC(k, j) == Reduce(k.amps[j][1], k.amps[j][2], 1)
Image(M, k) == [r \in 1..Rows(M) |-> CSum([c \in 1..Rows(M) |-> CMul(M[r][c], AmpC(k, c))])]
Lead(k) == CHOOSE j \in 1..Dim(k) : k.amps[j] # <<0, 0>> /\ \A l \in 1..(j - 1) : k.amps[l] = <<0, 0>>
\* the eigenvalue of k under M, or NoScalar when k is no eigenvector of M
NoScalar == [re |-> 0, im |-> 0, den |-> 0]
Eigenvalue(M, k) ==
    LET img == Image(M, k)
        ev == CDiv(img[Lead(k)], AmpC(k, Lead(k)))
    IN  IF \A j \in 1..Dim(k) : img[j] = CMul(ev, AmpC(k, j)) THEN ev ELSE NoScalar

\* the unit kets eigenvectors are looked for among: |0>, |1>, (|0> +- |1>)/sqrt(2),
\* (|0> +- i|1>)/sqrt(2), their products, and the four Bell kets
Axis ==
    { Ket(<< <<1, 0>>, <<0, 0>> >>, 1), Ket(<< <<0, 0>>, <<1, 0>> >>, 1),
      Ket(<< <<1, 0>>, <<1, 0>> >>, 2), Ket(<< <<1, 0>>, <<-1, 0>> >>, 2),
      Ket(<< <<1, 0>>, <<0, 1>> >>, 2), Ket(<< <<1, 0>>, <<0, -1>> >>, 2) }
BellKets ==
    { Ket(<< <<1, 0>>, <<0, 0>>, <<0, 0>>, <<1, 0>> >>, 2),
      Ket(<< <<1, 0>>, <<0, 0>>, <<0, 0>>, <<-1, 0>> >>, 2),
      Ket(<< <<0, 0>>, <<1, 0>>, <<1, 0>>, <<0, 0>> >>, 2),
      Ket(<< <<0, 0>>, <<1, 0>>, <<-1, 0>>, <<0, 0>> >>, 2) }
UnitKets(d) ==
    IF d = 2 THEN Axis
    ELSE IF d = 1 THEN {Ket(<< <<1, 0>> >>, 1)}
    ELSE IF d = 4 THEN BellKets \cup {tensor(k, o).val : k \in Axis, o \in Axis}
    ELSE {}

\* eigen_decompose by deflation: take a unit eigenvector v of M with non-zero
\* eigenvalue ev, emit (ev, v), go on with M - ev |v><v|.  found is FALSE when
\* M has no eigenbasis among UnitKets.
RECURSIVE Deflate(_, _, _)
Deflate(M, rest, fuel) ==
    LET cands == {k \in UnitKets(Rows(M)) :
                    LET ev == Eigenvalue(rest, k)
                    IN  ev # NoScalar /\ ev # Zero /\ Eigenvalue(M, k) = ev}
    IN  IF rest = ZeroMatrix(Rows(M)) THEN [found |-> TRUE, pairs |-> <<>>]
        ELSE IF fuel = 0 \/ cands = {} THEN [found |-> FALSE, pairs |-> <<>>]
        ELSE LET v == CHOOSE k \in cands : TRUE
                 ev == Eigenvalue(rest, v)
                 more == Deflate(M, MAdd(rest, MScale(CNeg(ev), Outer(v))), fuel - 1)
             IN  [more EXCEPT !.pairs = <<[p |-> ev, ket |-> v]>> \o @]

eigen_decompose(M) == Deflate(M, M, Rows(M))

KeepValid(dims, keep) ==
    keep # <<>> /\ \A j \in 1..Len(keep) : keep[j] \in 0..(Len(dims) - 1)

\* partial_trace_ensemble(ensemble, subsys_dims, keep): the new ensemble as
\* pairs [p, ket], or the error.  first is the argument check made first; the
\* specification leaves the order of the two checks open.
partial_trace_ensemble(heap, ens, dims, keep, first) ==
    LET d == Dim(heap[ens[1].s])
        badDims == Prod(dims) # d
        badKeep == ~KeepValid(dims, keep)
        dm == density_matrix(heap, ens)
    IN  IF badDims /\ (first = "dims" \/ ~badKeep) THEN Err("DimensionMismatchError")
        ELSE IF badKeep THEN Err("InvalidSubsystemError")
        ELSE IF dm.kind # "ok" THEN dm
        ELSE LET dec == eigen_decompose(ReducedMatrix(dm.val, dims, keep))
             IN  IF dec.found THEN Ok(dec.pairs) ELSE Err("unmodelled")

\* Mutant: partial_trace_ensemble(self.ensemble, keep, subsys_dims), the two
\* arguments swapped
partial_trace_Swapped(heap, ens, dims, keep, first) ==
    LET new_ensemble == partial_trace_ensemble(heap, ens, keep, dims, first)
    IN  IF new_ensemble.kind # "ok" THEN new_ensemble
        ELSE MixedStateInit(new_ensemble.val)

\* Mutant: MixedState(self.ensemble), the reduced ensemble dropped
partial_trace_KeepsEnsemble(heap, ens, dims, keep, first) ==
    LET new_ensemble == partial_trace_ensemble(heap, ens, dims, keep, first)
    IN  IF new_ensemble.kind # "ok" THEN new_ensemble
        ELSE MixedStateInit([j \in 1..Len(ens) |-> [p |-> ens[j].p, ket |-> heap[ens[j].s]]])

\* partial_trace(subsys_dims, keep)
partial_trace(heap, ens, dims, keep, first) ==
    LET new_ensemble == partial_trace_ensemble(heap, ens, dims, keep, first)
    IN  IF new_ensemble.kind # "ok" THEN new_ensemble
        ELSE MixedStateInit(new_ensemble.val)

---------------------------------------------------------------------------
\* Inputs of the calls.

K0 == Ket(<< <<1, 0>>, <<0, 0>> >>, 1)
\* (|0> + i|1>)/sqrt(2)
KY == Ket(<< <<1, 0>>, <<0, 1>> >>, 2)
\* |0> + |1>, not normalized
KU == Ket(<< <<1, 0>>, <<1, 0>> >>, 1)
\* (|00> + |11>)/sqrt(2)
Bell == Ket(<< <<1, 0>>, <<0, 0>>, <<0, 0>>, <<1, 0>> >>, 2)

Amplitudes ==
    {[cols |-> 1, ket |-> k] : k \in {K0, KY, KU, Bell}}
        \cup {[cols |-> 2, ket |-> K0]}

GateX == << << <<0, 0>>, <<1, 0>> >>, << <<1, 0>>, <<0, 0>> >> >>
Gates == {GateX}

Half == Q(1, 2)
Probs == {One, Half}
ProbLists ==
    { <<>>, <<One>>, <<Half, Half>>, <<Half, Q(2, 5)>>,
      <<Reduce(1, 1, 2), Reduce(1, -1, 2)>> }

P0 == << <<One, Zero>>, <<Zero, Zero>> >>
P1 == << <<Zero, Zero>>, <<Zero, One>> >>
PPlus == << <<Half, Half>>, <<Half, Half>> >>
PMinus == << <<Half, CNeg(Half)>>, <<CNeg(Half), Half>> >>
ProjectorLists == { <<P1>>, <<P0, P1>>, <<P1, P0>>, <<PPlus, PMinus>> }

DimsLists == { <<2, 2>>, <<2, 2, 2>> }
KeepLists == { <<>>, <<0>>, <<1>>, <<2>> }

---------------------------------------------------------------------------
\* The state machine.

NoCall == [op |-> "none", self |-> 0, arg |-> <<>>, kind |-> "ok", out |-> 0]

Init ==
    /\ pure = <<>>
    /\ mixed = <<>>
    /\ last = NoCall

\* Mutant: "self.vec = ...; return PureState(self.vec)", the receiver
\* overwritten
Allocate_InPlace(heap, self, k) ==
    IF self = 0 THEN Append(heap, k) ELSE Append([heap EXCEPT ![self] = k], k)

\* "return PureState(...)" in a method of object self (0: no receiver): the
\* result is a new object and self keeps its ket.
Allocate(heap, self, k) == Append(heap, k)

\* A call that returns a new PureState allocates it; a call that raises
\* allocates nothing the caller can reach.
ReturnPure(op, self, arg, res) ==
    /\ res.kind = "ok" => Len(pure) < MaxPure
    /\ pure' = IF res.kind = "ok" THEN Allocate(pure, self, res.val) ELSE pure
    /\ last' = [op |-> op, self |-> self, arg |-> arg, kind |-> res.kind,
                out |-> IF res.kind = "ok" THEN Len(pure) + 1 ELSE 0]
    /\ UNCHANGED mixed

ReturnMixed(op, self, arg, res, extra) ==
    /\ res.kind = "ok" => Len(mixed) < MaxMixed
    /\ mixed' = IF res.kind = "ok" THEN Append(mixed, res.val) ELSE mixed
    /\ last' = [op |-> op, self |-> self, arg |-> arg, kind |-> res.kind,
                out |-> IF res.kind = "ok" THEN Len(mixed) + 1 ELSE 0] @@ extra
    /\ UNCHANGED pure

NewPureState ==
    \E a \in Amplitudes : ReturnPure("PureState", 0, a.cols, PureStateInit(a))

ApplyGate ==
    \E s \in 1..Len(pure), g \in Gates :
        ReturnPure("apply_gate", s, <<>>, apply_gate(pure[s], g))

Tensor ==
    \E s \in 1..Len(pure), o \in 1..Len(pure) :
        /\ Dim(pure[s]) * Dim(pure[o]) <= MaxDim
        /\ ReturnPure("tensor", s, <<>>, tensor(pure[s], pure[o]))

Normalize ==
    \E s \in 1..Len(pure) : ReturnPure("normalize", s, <<>>, normalize(pure[s]))

ToMixed ==
    \E s \in 1..Len(pure), prob \in Probs :
        ReturnMixed("to_mixed", s, prob, to_mixed(s, prob), <<>>)

NewMixedState ==
    \E pl \in ProbLists : \E ids \in [1..Len(pl) -> 1..Len(pure)] :
        LET ens == [j \in 1..Len(pl) |-> [p |-> pl[j], s |-> ids[j]]]
        IN  ReturnMixed("MixedState", 0, ens, MixedStateInit(ens), <<>>)

DensityMatrix ==
    \E m \in 1..Len(mixed) :
        \E res \in {density_matrix(pure, mixed[m])} :
            /\ last' = [op |-> "density_matrix", self |-> m, arg |-> <<>>,
                        kind |-> res.kind, out |-> res.val]
            /\ UNCHANGED <<pure, mixed>>

Measure ==
    \E m \in 1..Len(mixed), projectors \in ProjectorLists :
        \E c \in {Collapse(density_matrix(pure, mixed[m]), projectors)} :
            \E pos \in (IF c.kind = "ok" THEN diagonalize(c.post) ELSE {0}) :
                \E res \in {measure(c, pos)} :
                    ReturnMixed("measure", m, projectors, res,
                                [index |-> res.index, post |-> res.post])

\* partial_trace allocates the eigenvectors as new PureState objects and the
\* MixedState that holds them.
PartialTrace ==
    \E m \in 1..Len(mixed), dims \in DimsLists, keep \in KeepLists :
      \E first \in (IF Prod(dims) # Dim(pure[mixed[m][1].s]) /\ ~KeepValid(dims, keep)
                    THEN {"dims", "keep"} ELSE {"dims"}) :
        \E res \in {partial_trace(pure, mixed[m], dims, keep, first)} :
            /\ res.kind # "unmodelled"
            /\ res.kind = "ok" => Len(mixed) < MaxMixed + MaxDerived
            /\ IF res.kind = "ok"
               THEN /\ pure' = pure \o [j \in 1..Len(res.val) |-> res.val[j].ket]
                    /\ mixed' = Append(mixed, [j \in 1..Len(res.val) |->
                                    [p |-> res.val[j].p, s |-> Len(pure) + j]])
               ELSE UNCHANGED <<pure, mixed>>
            /\ last' = [op |-> "partial_trace", self |-> m,
                        arg |-> [dims |-> dims, keep |-> keep],
                        kind |-> res.kind,
                        out |-> IF res.kind = "ok" THEN Len(mixed) + 1 ELSE 0]

Next ==
    \/ NewPureState
    \/ ApplyGate
    \/ Tensor
    \/ Normalize
    \/ ToMixed
    \/ NewMixedState
    \/ DensityMatrix
    \/ Measure
    \/ PartialTrace

Spec == Init /\ [][Next]_vars

---------------------------------------------------------------------------
\* Properties.

Member(m, j) == pure[mixed[m][j].s]
ProbsOf(ens) == [j \in 1..Len(ens) |-> ens[j].p]
IsHermitian(M) == M = ConjT(M)
SameDim(m) == \A j \in 1..Len(mixed[m]) : Dim(Member(m, j)) = Dim(Member(m, 1))
RealProbs(m) == \A j \in 1..Len(mixed[m]) : IsReal(mixed[m][j].p)
\* every member is an exact ket of norm 1, all of one dimension
UnitExact(m) ==
    /\ SameDim(m)
    /\ \A j \in 1..Len(mixed[m]) : AmpSq(Member(m, j)) = Member(m, j).nsq /\ ~Member(m, j).flt

\* C1: MixedState(ensemble) raises InvalidEnsembleError exactly when
\* sum(p) - 1 is non-zero; otherwise it returns a new MixedState that holds the
\* ensemble.  [0.5, 0.4] is rejected, [0.5, 0.5] accepted, and a rejected
\* construction leaves no new MixedState.
C1_ConstructorValidates ==
    [][last'.op = "MixedState" =>
        /\ (last'.kind = "InvalidEnsembleError") <=> (Residual(last'.arg) # Zero)
        /\ last'.kind \in {"ok", "InvalidEnsembleError"}
        /\ last'.kind = "ok" =>
              mixed' = Append(mixed, last'.arg) /\ last'.out = Len(mixed')
        /\ last'.kind # "ok" => mixed' = mixed /\ pure' = pure /\ last'.out = 0
        /\ ProbsOf(last'.arg) = <<Half, Q(2, 5)>> => last'.kind = "InvalidEnsembleError"
        /\ ProbsOf(last'.arg) = <<Half, Half>> => last'.kind = "ok"]_vars

\* [0.5, 0.5] was accepted and is held by object 1; [0.5, 0.4] was rejected after it
C1_Witness ==
    /\ last.op = "MixedState" /\ last.kind = "InvalidEnsembleError"
    /\ ProbsOf(last.arg) = <<Half, Q(2, 5)>>
    /\ Len(mixed) = 1 /\ ProbsOf(mixed[1]) = <<Half, Half>>

SelectedBranchIsFirstNonZero ==
    (last.op = "measure" /\ last.kind \notin {"ShapeError", "DegenerateMeasurementError"}) =>
        LET probs == OutcomeProbs(density_matrix(pure, mixed[last.self]).val, last.arg)
        IN  /\ last.index \in 1..Len(last.arg)
            /\ probs[last.index] # Zero
            /\ \A j \in 1..(last.index - 1) : probs[j] = Zero
            /\ last.kind = "AttributeError"

\* C3 (as claimed): measure raises DegenerateMeasurementError if and only if
\* every outcome probability is zero; with a non-zero one it returns
\* (index, MixedState).
C3_DegenerateIffAllZero ==
    (last.op = "measure" /\ last.kind # "ShapeError") =>
        LET probs == OutcomeProbs(density_matrix(pure, mixed[last.self]).val, last.arg)
            allZero == \A i \in 1..Len(probs) : probs[i] = Zero
        IN  /\ (last.kind = "DegenerateMeasurementError") <=> allZero
            /\ ~allZero => last.kind = "ok" /\ last.out \in 1..Len(mixed)

\* the degenerate half of C3 holds: |0> against the single projector |1><1|
DegenerateWhenAllZero ==
    (last.op = "measure" /\ last.kind # "ShapeError") =>
        LET probs == OutcomeProbs(density_matrix(pure, mixed[last.self]).val, last.arg)
        IN  (last.kind = "DegenerateMeasurementError") <=> (\A i \in 1..Len(probs) : probs[i] = Zero)

\* C5 (as claimed): the MixedState measure returns for the selected branch
\* holds one (eigenvalue, eigenvector) entry per non-zero eigenvalue of rho',
\* none for a zero eigenvalue; its probabilities sum to 1 and its density
\* matrix is rho'.
C5_ReturnedEnsembleIsSpectral ==
    (last.op = "measure" /\ last.index # 0) =>
        /\ last.kind = "ok"
        /\ \A j \in 1..Len(mixed[last.out]) :
              /\ mixed[last.out][j].p # Zero
              /\ Eigenvalue(last.post, Member(last.out, j)) = mixed[last.out][j].p
        /\ Total(mixed[last.out]) = One
        /\ density_matrix(pure, mixed[last.out]).val = last.post

\* C4 (as claimed): the trace of density_matrix() is 1 for every accepted
\* ensemble, whatever kets its members hold.
C4_TraceOneWhateverKets ==
    (last.op = "density_matrix" /\ last.kind = "ok") => Trace(last.out) = One

\* C4 (amended): for an accepted ensemble whose members are exact kets of
\* norm 1 and of one dimension, density_matrix() returns a matrix of trace 1.
C4_TraceOneForUnitKets ==
    (last.op = "density_matrix" /\ UnitExact(last.self)) =>
        last.kind = "ok" /\ Trace(last.out) = One

\* a mixture of two different unit kets, one with a complex amplitude
C4_Witness ==
    /\ last.op = "density_matrix" /\ UnitExact(last.self) /\ last.kind = "ok"
    /\ Len(mixed[last.self]) = 2
    /\ Member(last.self, 1) # Member(last.self, 2)
    /\ mixed[last.self][1].p = Half

\* C6: no call changes the ket of an existing PureState or the ensemble of an
\* existing MixedState, whether it returns or raises; what a call returns is a
\* new object, and a call that raises leaves no object behind.
C6_NoMutation ==
    [][/\ Len(pure') >= Len(pure) /\ SubSeq(pure', 1, Len(pure)) = pure
       /\ Len(mixed') >= Len(mixed) /\ SubSeq(mixed', 1, Len(mixed)) = mixed
       /\ last'.kind # "ok" => pure' = pure /\ mixed' = mixed
       /\ (last'.kind = "ok" /\ last'.op \in {"PureState", "apply_gate", "tensor", "normalize"}) =>
             Len(pure') = Len(pure) + 1 /\ last'.out = Len(pure')
       /\ (last'.kind = "ok" /\ last'.op \in {"MixedState", "to_mixed", "measure", "partial_trace"}) =>
             Len(mixed') = Len(mixed) + 1 /\ last'.out = Len(mixed')]_vars

\* apply_gate returned a new ket; the receiver, a member of MixedState 1,
\* still holds the old one
C6_Witness ==
    /\ last.op = "apply_gate" /\ last.kind = "ok"
    /\ last.out # last.self /\ pure[last.out] # pure[last.self]
    /\ Len(mixed) = 1 /\ mixed[1][1].s = last.self

BadDims(m, dims) == Prod(dims) # Dim(Member(m, 1))
BadKeep(dims, keep) == ~KeepValid(dims, keep)

ValidArgs == ~BadDims(last.self, last.arg.dims) /\ ~BadKeep(last.arg.dims, last.arg.keep)
KeptDim == Prod([j \in 1..Len(last.arg.keep) |-> last.arg.dims[last.arg.keep[j] + 1]])
IsBellState(m) == Len(mixed[m]) = 1 /\ mixed[m][1].p = One /\ Member(m, 1) = Bell
HalfIdentity == << <<Half, Zero>>, <<Zero, Half>> >>
ReducedState ==
    /\ last.kind = "ok" /\ last.out = Len(mixed) /\ last.out # last.self
    /\ \A j \in 1..Len(mixed[last.out]) : Dim(Member(last.out, j)) = KeptDim
    /\ density_matrix(pure, mixed[last.out]).kind = "ok"
    /\ Trace(density_matrix(pure, mixed[last.out]).val) = One
    /\ IsBellState(last.self) => density_matrix(pure, mixed[last.out]).val = HalfIdentity

SameTwice ==
    (last.op = "density_matrix" /\ last'.op = "density_matrix" /\ last'.self = last.self) =>
        last'.kind = last.kind /\ last'.out = last.out

\* C9 (as claimed): for every accepted ensemble the matrix density_matrix()
\* returns equals its conjugate transpose, and two calls on the same
\* MixedState return equal matrices.
C9_HermitianAlways ==
    [][/\ (last'.op = "density_matrix" /\ last'.kind = "ok") => IsHermitian(last'.out)
       /\ SameTwice]_vars

\* C9 (amended): for every accepted ensemble whose probabilities are real and
\* whose members have one dimension, density_matrix() returns a matrix equal
\* to its conjugate transpose; two calls on the same MixedState return equal
\* matrices.
C9_HermitianForRealProbs ==
    [][/\ (last'.op = "density_matrix" /\ RealProbs(last'.self) /\ SameDim(last'.self)) =>
             last'.kind = "ok" /\ IsHermitian(last'.out)
       /\ SameTwice]_vars

\* a mixture with real weights of two kets whose matrix has a non-real entry
C9_Witness ==
    /\ last.op = "density_matrix" /\ last.kind = "ok"
    /\ RealProbs(last.self) /\ Len(mixed[last.self]) = 2
    /\ \E r \in 1..Rows(last.out), c \in 1..Rows(last.out) : ~IsReal(last.out[r][c])

\* C10: every MixedState that exists holds a non-empty ensemble, the empty one
\* being rejected by the sum check; density_matrix() never reads the first
\* member of an empty ensemble.
C10_NonEmptyEnsemble ==
    /\ \A m \in 1..Len(mixed) : mixed[m] # <<>>
    /\ last.kind # "IndexError"
    /\ (last.op = "MixedState" /\ last.arg = <<>>) => last.kind = "InvalidEnsembleError"

\* MixedState([]) was called and rejected
C10_Witness ==
    /\ last.op = "MixedState" /\ last.arg = <<>>
    /\ last.kind = "InvalidEnsembleError"
    /\ Len(mixed) = 0

===========================================================================
